---- MODULE Spec2Model ----
(***************************************************************************)
(* A model of the Tezos p2p handshake node: the nonce counter, the         *)
(* directional nonce derivation, the PeerCrypto session and the Peer       *)
(* handshake state machine of src/p2p/peer.rs.                             *)
(*                                                                         *)
(* Byte strings are sequences of 0..255.  The authenticated box cipher of  *)
(* sodiumoxide is modelled symbolically: a ciphertext is a record naming   *)
(* the key, the nonce bytes and the plaintext it was sealed from, and it   *)
(* opens only under that key and nonce.                                    *)
(***************************************************************************)
EXTENDS Integers, Sequences, FiniteSets, TLC

(***************************************************************************)
(* Bounds of the model.                                                    *)
(***************************************************************************)
\* calls made on the peer in Spec
MaxCalls == 3
\* encrypt calls, and decrypt calls, of one PeerCrypto session in SpecCrypto
MaxOps == 3
\* messages exchanged in each direction between the two ends in SpecNonces
MaxXchg == 2
\* length of the byte sequences sent_msg and recv_msg drawn in SpecNonces
MaxMsgLen == 2
\* successive increments applied to one nonce in SpecNonceOps
MaxInc == 3
\* how far beyond the key size the buffers handed to from_bytes go in SpecKeys
MaxKeyExtra == 2
\* frames written to the stream in SpecFraming
MaxFrames == 2
\* tasks that call into the stream in SpecLock, and the calls each makes
MaxTasks == 2
MaxTaskOps == 2
\* connection messages the remote node may answer with in SpecProgress
MaxPeerNonces == 3

(***************************************************************************)
(* Program constants.                                                      *)
(***************************************************************************)
NONCE_SIZE == 24
NONCE_WORDS == 12
CRYPTO_KEY_SIZE == 32
CONTENT_LENGTH_FIELD_BYTES == 2
INIT_TO_RESP_SEED == <<73, 110, 105, 116, 32, 45, 62, 32, 82, 101, 115, 112>>
RESP_TO_INIT_SEED == <<82, 101, 115, 112, 32, 45, 62, 32, 73, 110, 105, 116>>

(***************************************************************************)
(* Result<T, E> and Option<T>.                                             *)
(***************************************************************************)
Ok(v) == [ok |-> TRUE, v |-> v]
Err(e) == [ok |-> FALSE, err |-> e]
None == [some |-> FALSE]
Some(v) == [some |-> TRUE, v |-> v]

Rep(n, b) == [i \in 1..n |-> b]

(***************************************************************************)
(* crypto/nonce.rs: a nonce is 12 big-endian 16-bit words.                 *)
(***************************************************************************)
Nonce_new(bytes) ==
    [i \in 1..NONCE_WORDS |-> bytes[2 * i - 1] * 256 + bytes[2 * i]]

\* the bytes of the words written low byte first
Nonce_get_bytes_le(value) ==
    [i \in 1..NONCE_SIZE |->
        IF i % 2 = 1 THEN value[(i + 1) \div 2] % 256
                     ELSE value[i \div 2] \div 256]

Nonce_get_bytes(value) ==
    [i \in 1..NONCE_SIZE |->
        IF i % 2 = 1 THEN value[(i + 1) \div 2] \div 256
                     ELSE value[i \div 2] % 256]

\* the loop of Nonce::increment, entered with pos = NONCE_WORDS (the last word)
RECURSIVE increment_loop(_, _)
increment_loop(value, pos) ==
    LET result == value[pos] + 1
        stored == [value EXCEPT ![pos] = result % 65536]
    IN  IF result < 65536 \/ pos = 1
        THEN stored
        ELSE increment_loop(stored, pos - 1)

\* a counter that stays at its greatest value instead of wrapping
Nonce_increment_saturating(value) ==
    IF \A i \in 1..NONCE_WORDS : value[i] = 65535 THEN value
    ELSE increment_loop(value, NONCE_WORDS)

\* a counter that adds one to the last word and drops the carry
Nonce_increment_nocarry(value) ==
    [value EXCEPT ![NONCE_WORDS] = (@ + 1) % 65536]

Nonce_increment(value) == increment_loop(value, NONCE_WORDS)

(***************************************************************************)
(* crypto/blake2b.rs is not among the sources.  Blake2b-256 is modelled    *)
(* as a deterministic function to 32 bytes of the length of the input,     *)
(* the sum of its bytes and the sum of its bytes weighted by position.     *)
(***************************************************************************)
\* <<sum of data[lo..hi], sum of j * data[j] for j in lo..hi>>, modulo 2^16
RECURSIVE weighted_sums(_, _, _)
weighted_sums(data, lo, hi) ==
    IF lo > hi THEN <<0, 0>>
    ELSE IF lo = hi THEN <<data[lo], (lo * data[lo]) % 65536>>
    ELSE LET mid == (lo + hi) \div 2
             l == weighted_sums(data, lo, mid)
             r == weighted_sums(data, mid + 1, hi)
         IN  <<(l[1] + r[1]) % 65536, (l[2] + r[2]) % 65536>>

digest_256(data) ==
    LET s == weighted_sums(data, 1, Len(data))
    IN  Ok([i \in 1..32 |->
              (s[1] * (i + 1) + s[2] * (2 * i + 3) + 7 * Len(data) + i) % 256])

(***************************************************************************)
(* crypto/key.rs                                                           *)
(***************************************************************************)
\* the derivation with the (init, resp) order taken from the caller's
\* (sent, recv) order whatever the direction of the connection
generate_nonces_noswap(sent_msg, recv_msg, incoming) ==
    LET d1 == digest_256(sent_msg \o recv_msg \o INIT_TO_RESP_SEED)
        d2 == digest_256(sent_msg \o recv_msg \o RESP_TO_INIT_SEED)
        nonce_init_to_resp == SubSeq(d1.v, 1, NONCE_SIZE)
        nonce_resp_to_init == SubSeq(d2.v, 1, NONCE_SIZE)
    IN  Ok(IF incoming
           THEN [local |-> Nonce_new(nonce_init_to_resp),
                 remote |-> Nonce_new(nonce_resp_to_init)]
           ELSE [local |-> Nonce_new(nonce_resp_to_init),
                 remote |-> Nonce_new(nonce_init_to_resp)])

\* the derivation with local and remote assigned as for an outgoing connection
\* whatever the direction
generate_nonces_samedir(sent_msg, recv_msg, incoming) ==
    LET init_msg == IF incoming THEN recv_msg ELSE sent_msg
        resp_msg == IF incoming THEN sent_msg ELSE recv_msg
        d1 == digest_256(init_msg \o resp_msg \o INIT_TO_RESP_SEED)
        d2 == digest_256(init_msg \o resp_msg \o RESP_TO_INIT_SEED)
    IN  Ok([local |-> Nonce_new(SubSeq(d2.v, 1, NONCE_SIZE)),
            remote |-> Nonce_new(SubSeq(d1.v, 1, NONCE_SIZE))])

generate_nonces(sent_msg, recv_msg, incoming) ==
    LET init_msg == IF incoming THEN recv_msg ELSE sent_msg
        resp_msg == IF incoming THEN sent_msg ELSE recv_msg
        d1 == digest_256(init_msg \o resp_msg \o INIT_TO_RESP_SEED)
        d2 == digest_256(init_msg \o resp_msg \o RESP_TO_INIT_SEED)
    IN  IF ~d1.ok THEN d1
        ELSE IF ~d2.ok THEN d2
        ELSE LET nonce_init_to_resp == SubSeq(d1.v, 1, NONCE_SIZE)
                 nonce_resp_to_init == SubSeq(d2.v, 1, NONCE_SIZE)
             IN  Ok(IF incoming
                    THEN [local |-> Nonce_new(nonce_init_to_resp),
                          remote |-> Nonce_new(nonce_resp_to_init)]
                    ELSE [local |-> Nonce_new(nonce_resp_to_init),
                          remote |-> Nonce_new(nonce_init_to_resp)])

\* the key pairs of the model: this node's identity (constants.rs) and a peer
IdentityPk ==
    <<23, 247, 209, 24, 146, 39, 74, 114, 48, 217, 105, 170, 19, 53, 210, 94,
      99, 127, 67, 8, 123, 118, 208, 226, 74, 26, 139, 125, 3, 22, 143, 92>>
IdentitySk ==
    <<2, 113, 250, 200, 109, 2, 10, 235, 230, 161, 201, 118, 131, 129, 231, 36,
      94, 72, 231, 117, 36, 204, 162, 161, 101, 45, 10, 98, 31, 172, 40, 159>>
IdentityPow ==
    <<182, 164, 168, 13, 118, 80, 71, 145, 139, 3, 124, 133, 149, 140, 65, 9,
      99, 38, 164, 181, 47, 240, 55, 126>>
PeerPk == Rep(CRYPTO_KEY_SIZE, 170)
PeerSk == Rep(CRYPTO_KEY_SIZE, 85)

\* a check that only refuses buffers that are too short, and keeps the first
\* 32 bytes of a longer one
ensure_crypto_key_bytes_truncating(buf) ==
    IF Len(buf) < CRYPTO_KEY_SIZE
    THEN Err([kind |-> "InvalidKeySize", expected |-> CRYPTO_KEY_SIZE, actual |-> Len(buf)])
    ELSE Ok([i \in 1..CRYPTO_KEY_SIZE |-> buf[i]])

ensure_crypto_key_bytes(buf) ==
    IF Len(buf) # CRYPTO_KEY_SIZE
    THEN Err([kind |-> "InvalidKeySize", expected |-> CRYPTO_KEY_SIZE, actual |-> Len(buf)])
    ELSE Ok([i \in 1..CRYPTO_KEY_SIZE |-> buf[i]])

PublicKey_from_bytes(buf) == ensure_crypto_key_bytes(buf)

SecretKey_from_bytes(buf) == ensure_crypto_key_bytes(buf)

\* the public key of a secret key (the curve's base-point multiplication)
PublicOf(sk) == IF sk = IdentitySk THEN IdentityPk ELSE PeerPk

\* box_::precompute: the Diffie-Hellman secret shared by the holders of the two
\* key pairs, the same whichever side computes it
PrecomputedKey_precompute(pk, sk) == {pk, PublicOf(sk)}

\* a buffer of plain bytes, in the shape of a sealed box
NoKey == {}
Plain(bytes) == [box |-> FALSE, key |-> NoKey, nonce |-> <<>>, bytes |-> bytes]

\* the number of bytes of a buffer: a sealed box carries a 16-byte tag
DataLen(data) == IF data.box THEN Len(data.bytes) + 16 ELSE Len(data.bytes)

PrecomputedKey_encrypt(key, msg, nonce) ==
    Ok([box |-> TRUE, key |-> key, nonce |-> Nonce_get_bytes(nonce), bytes |-> msg])

\* a box that opens under its key whatever the nonce
PrecomputedKey_decrypt_anynonce(key, enc, nonce) ==
    IF enc.box /\ enc.key = key
    THEN Ok(enc.bytes)
    ELSE Err("FailedToDecrypt")

PrecomputedKey_decrypt(key, enc, nonce) ==
    IF enc.box /\ enc.key = key /\ enc.nonce = Nonce_get_bytes(nonce)
    THEN Ok(enc.bytes)
    ELSE Err("FailedToDecrypt")

(***************************************************************************)
(* crypto/peer_crypto.rs: a session is [precomputed_key, nonce_pair].      *)
(* Each operation returns the session after the call (self), the result    *)
(* (res) and, for decrypt, the nonce bytes handed to the cipher (nonce).    *)
(***************************************************************************)
PeerCrypto_new(precomputed_key, nonce_pair) ==
    [precomputed_key |-> precomputed_key, nonce_pair |-> nonce_pair]

\* build that hands the two connection messages to generate_nonces in the
\* other order
PeerCrypto_build_swapped(node_secret_key, peer_public_key, sent_conn_msg, received_conn_msg, incoming) ==
    LET nonce_pair == generate_nonces(received_conn_msg, sent_conn_msg, incoming)
    IN  IF ~nonce_pair.ok THEN nonce_pair
        ELSE Ok(PeerCrypto_new(
                    PrecomputedKey_precompute(peer_public_key, node_secret_key),
                    nonce_pair.v))

PeerCrypto_build(node_secret_key, peer_public_key, sent_conn_msg, received_conn_msg, incoming) ==
    LET nonce_pair == generate_nonces(sent_conn_msg, received_conn_msg, incoming)
    IN  IF ~nonce_pair.ok THEN nonce_pair
        ELSE Ok(PeerCrypto_new(
                    PrecomputedKey_precompute(peer_public_key, node_secret_key),
                    nonce_pair.v))

\* increments the stored nonce and returns the incremented value
local_nonce_increment_fetch(self) ==
    LET nonce == Nonce_increment(self.nonce_pair.local)
    IN  [self |-> [self EXCEPT !.nonce_pair.local = nonce], nonce |-> nonce]

\* returns the stored nonce and leaves it in place
local_nonce_fetch_only(self) ==
    [self |-> self, nonce |-> self.nonce_pair.local]

local_nonce_fetch_increment(self) ==
    LET nonce == Nonce_increment(self.nonce_pair.local)
    IN  [self |-> [self EXCEPT !.nonce_pair.local = nonce],
         nonce |-> self.nonce_pair.local]

\* a session with one counter for both directions: fetching the remote nonce
\* advances the local nonce as well
remote_nonce_fetch_increment_shared(self) ==
    LET nonce == Nonce_increment(self.nonce_pair.remote)
    IN  [self |-> [self EXCEPT !.nonce_pair.remote = nonce,
                               !.nonce_pair.local = Nonce_increment(@)],
         nonce |-> self.nonce_pair.remote]

remote_nonce_fetch_increment(self) ==
    LET nonce == Nonce_increment(self.nonce_pair.remote)
    IN  [self |-> [self EXCEPT !.nonce_pair.remote = nonce],
         nonce |-> self.nonce_pair.remote]

PeerCrypto_encrypt(self, data) ==
    LET f == local_nonce_fetch_increment(self)
    IN  [self |-> f.self,
         res |-> PrecomputedKey_encrypt(f.self.precomputed_key, data, f.nonce)]

\* decrypt that keeps the advanced nonce only when the box opens, and puts
\* the session back as it was when it does not
PeerCrypto_decrypt_rollback(self, data) ==
    LET f == remote_nonce_fetch_increment(self)
        res == PrecomputedKey_decrypt(f.self.precomputed_key, data, f.nonce)
    IN  [self |-> IF res.ok THEN f.self ELSE self,
         res |-> res,
         nonce |-> Nonce_get_bytes(f.nonce)]

PeerCrypto_decrypt(self, data) ==
    LET f == remote_nonce_fetch_increment(self)
    IN  [self |-> f.self,
         res |-> PrecomputedKey_decrypt(f.self.precomputed_key, data, f.nonce),
         nonce |-> Nonce_get_bytes(f.nonce)]

(***************************************************************************)
(* msgs/*.rs: the speedy codecs of the handshake messages.                 *)
(***************************************************************************)
CRYPTO_KEY_LENGTH == 32
POW_LENGTH == 24
NONCE_LENGTH == 24
BOOTSTRAP_DEFAULT_PORT == 9732
\* "TEZOS_MAINNET"
ChainName == <<84, 69, 90, 79, 83, 95, 77, 65, 73, 78, 78, 69, 84>>

u16_to_be_bytes(v) == <<v \div 256, v % 256>>
u16_from_be_bytes(b) == b[1] * 256 + b[2]

NetworkVersion_new(chain_name, distributed_db_version, p2p_version) ==
    [chain_name_length |-> Len(chain_name) % 65536,
     chain_name |-> chain_name,
     distributed_db_version |-> distributed_db_version,
     p2p_version |-> p2p_version]

ConnectionMessage_new(port, public_key, proof_of_work_stamp, message_nonce, version) ==
    [port |-> port,
     public_key |-> public_key,
     proof_of_work_stamp |-> proof_of_work_stamp,
     message_nonce |-> message_nonce,
     version_length |-> 0,
     version |-> version]

\* write_to_vec_with_ctx(BigEndian): the fields in order, the three byte
\* fields and the chain name without a length of their own
ConnectionMessage_write(m) ==
    u16_to_be_bytes(m.port) \o m.public_key \o m.proof_of_work_stamp
        \o m.message_nonce \o u16_to_be_bytes(m.version_length)
        \o u16_to_be_bytes(m.version.chain_name_length) \o m.version.chain_name
        \o u16_to_be_bytes(m.version.distributed_db_version)
        \o u16_to_be_bytes(m.version.p2p_version)

\* read_from_buffer_with_ctx(BigEndian, buf): fails when the buffer ends
\* before a field does or the chain name is not text (here: not ASCII);
\* bytes after the last field are ignored
ConnectionMessage_read(buf) ==
    LET fixed == 2 + CRYPTO_KEY_LENGTH + POW_LENGTH + NONCE_LENGTH + 2 + 2
        pk_at == 2
        pow_at == pk_at + CRYPTO_KEY_LENGTH
        nonce_at == pow_at + POW_LENGTH
        vlen_at == nonce_at + NONCE_LENGTH
    IN  IF Len(buf) < fixed THEN Err("Speedy")
        ELSE LET n == u16_from_be_bytes(SubSeq(buf, fixed - 1, fixed))
             IN  IF Len(buf) < fixed + n + 4 THEN Err("Speedy")
                 ELSE IF \E i \in (fixed + 1)..(fixed + n) : buf[i] >= 128
                 THEN Err("Speedy")
                 ELSE Ok([port |-> u16_from_be_bytes(SubSeq(buf, 1, 2)),
                          public_key |-> SubSeq(buf, pk_at + 1, pow_at),
                          proof_of_work_stamp |-> SubSeq(buf, pow_at + 1, nonce_at),
                          message_nonce |-> SubSeq(buf, nonce_at + 1, vlen_at),
                          version_length |-> u16_from_be_bytes(SubSeq(buf, vlen_at + 1, vlen_at + 2)),
                          version |->
                              [chain_name_length |-> n,
                               chain_name |-> SubSeq(buf, fixed + 1, fixed + n),
                               distributed_db_version |->
                                   u16_from_be_bytes(SubSeq(buf, fixed + n + 1, fixed + n + 2)),
                               p2p_version |->
                                   u16_from_be_bytes(SubSeq(buf, fixed + n + 3, fixed + n + 4))]])

MetadataMessage_new(disable_mempool, private_node) ==
    [disable_mempool |-> disable_mempool, private_node |-> private_node]

MetadataMessage_write(m) ==
    <<IF m.disable_mempool THEN 1 ELSE 0, IF m.private_node THEN 1 ELSE 0>>

MetadataMessage_read(buf) ==
    IF Len(buf) < 2 THEN Err("Speedy")
    ELSE Ok([disable_mempool |-> buf[1] # 0, private_node |-> buf[2] # 0])

\* the tags of AckStatus
AckStatus_write(a) ==
    CASE a = "Ack" -> <<0>>
      [] a = "NackV1" -> <<255>>
      [] a = "NackV2" -> <<1>>

AckStatus_read(buf) ==
    IF Len(buf) < 1 THEN Err("Speedy")
    ELSE CASE buf[1] = 0 -> Ok("Ack")
           [] buf[1] = 255 -> Ok("NackV1")
           [] buf[1] = 1 -> Ok("NackV2")
           [] OTHER -> Err("Speedy")

(***************************************************************************)
(* p2p/peer.rs: framing, send_msg and recv_msg.  A call of send_msg or     *)
(* recv_msg returns the peer_crypto after the call, the result (res) and   *)
(* the stream operations it performed (io): for a write the frame, for a   *)
(* read the buffer, whether it was encrypted or decrypted (crypt), and the *)
(* plaintext given or returned (bytes).                                    *)
(***************************************************************************)
msg_bytes_to_raw(content) == u16_to_be_bytes(Len(content) % 65536) \o content

\* the length prefix msg_bytes_to_raw puts before a buffer
raw_prefix(data) == u16_to_be_bytes(DataLen(data) % 65536)

IoEntry(op, encryption, crypt, ok, prefix, data, bytes) ==
    [op |-> op, encryption |-> encryption, crypt |-> crypt, ok |-> ok,
     prefix |-> prefix, data |-> data, bytes |-> bytes]

\* the bytes of the frame a stream operation wrote or read: prefix and buffer
FrameBytes(e) == e.prefix \o e.bytes

\* send_msg that writes the bytes as they are when there is no session
send_msg_unguarded(crypto, bytes, encryption, write_ok) ==
    LET e == PeerCrypto_encrypt(IF crypto.some THEN crypto.v
                                ELSE PeerCrypto_new(NoKey, [local |-> Rep(NONCE_WORDS, 0),
                                                             remote |-> Rep(NONCE_WORDS, 0)]),
                                bytes)
        sealed == encryption /\ crypto.some
        data == IF sealed THEN e.res.v ELSE Plain(bytes)
    IN  [peer_crypto |-> IF sealed THEN Some(e.self) ELSE crypto,
         res |-> IF write_ok THEN Ok(<<>>) ELSE Err("Io"),
         io |-> <<IoEntry("write", encryption, sealed, write_ok, raw_prefix(data), data, bytes)>>]

\* send_msg that writes the frame a second time when write_all fails
send_msg_retrying(crypto, bytes, encryption, write_ok) ==
    IF encryption /\ ~crypto.some
    THEN [peer_crypto |-> crypto, res |-> Err("PeerCryptoNotInitialized"), io |-> <<>>]
    ELSE LET e == PeerCrypto_encrypt(crypto.v, bytes)
             data == IF encryption THEN e.res.v ELSE Plain(bytes)
             attempt(ok) == IoEntry("write", encryption, encryption, ok,
                                    raw_prefix(data), data, bytes)
         IN  [peer_crypto |-> IF encryption THEN Some(e.self) ELSE crypto,
              res |-> Ok(<<>>),
              io |-> IF write_ok THEN <<attempt(TRUE)>>
                     ELSE <<attempt(FALSE), attempt(TRUE)>>]

\* write_ok: whether write_all succeeds
send_msg(crypto, bytes, encryption, write_ok) ==
    IF encryption /\ ~crypto.some
    THEN [peer_crypto |-> crypto, res |-> Err("PeerCryptoNotInitialized"), io |-> <<>>]
    ELSE LET e == PeerCrypto_encrypt(crypto.v, bytes)
         IN  IF encryption /\ ~e.res.ok
             THEN [peer_crypto |-> Some(e.self), res |-> Err("CryptoFailed"), io |-> <<>>]
             ELSE LET data == IF encryption THEN e.res.v ELSE Plain(bytes)
                  IN  [peer_crypto |-> IF encryption THEN Some(e.self) ELSE crypto,
                       res |-> IF write_ok THEN Ok(<<>>) ELSE Err("Io"),
                       io |-> <<IoEntry("write", encryption, encryption, write_ok,
                                        raw_prefix(data), data, bytes)>>]

\* rd: what the stream delivers: Err when a read_exact fails, else the buffer
\* of the length the prefix declared
recv_msg(crypto, encryption, rd) ==
    IF ~rd.ok
    THEN [peer_crypto |-> crypto, res |-> Err("Io"),
          io |-> <<IoEntry("read", encryption, FALSE, FALSE, <<>>, Plain(<<>>), <<>>)>>]
    ELSE LET buffer == rd.v
             prefix == raw_prefix(buffer)
         IN  IF encryption /\ DataLen(buffer) # 0
             THEN IF crypto.some
                  THEN LET d == PeerCrypto_decrypt(crypto.v, buffer)
                       IN  IF d.res.ok
                           THEN [peer_crypto |-> Some(d.self), res |-> Ok(d.res.v),
                                 io |-> <<IoEntry("read", encryption, TRUE, TRUE,
                                                  prefix, buffer, d.res.v)>>]
                           ELSE [peer_crypto |-> Some(d.self), res |-> Err("CryptoFailed"),
                                 io |-> <<IoEntry("read", encryption, TRUE, FALSE,
                                                  prefix, buffer, <<>>)>>]
                  ELSE [peer_crypto |-> crypto, res |-> Err("PeerCryptoNotInitialized"),
                        io |-> <<IoEntry("read", encryption, FALSE, FALSE,
                                         prefix, buffer, <<>>)>>]
             ELSE [peer_crypto |-> crypto, res |-> Ok(buffer.bytes),
                   io |-> <<IoEntry("read", encryption, FALSE, TRUE,
                                    prefix, buffer, buffer.bytes)>>]

\* desconnect that marks the peer Disconnected before it touches the stream
desconnect_state_first(st, flush_ok, shutdown_ok) ==
    [state |-> "Disconnected",
     shut |-> flush_ok /\ shutdown_ok,
     res |-> IF flush_ok /\ shutdown_ok THEN Ok(<<>>) ELSE Err("Io"),
     io |-> IF flush_ok
            THEN <<IoEntry("flush", FALSE, FALSE, TRUE, <<>>, Plain(<<>>), <<>>),
                   IoEntry("shutdown", FALSE, FALSE, shutdown_ok, <<>>, Plain(<<>>), <<>>)>>
            ELSE <<IoEntry("flush", FALSE, FALSE, FALSE, <<>>, Plain(<<>>), <<>>)>>]

\* desconnect on a peer in state st: flush()?, shutdown()?, state = Disconnected
desconnect(st, flush_ok, shutdown_ok) ==
    IF ~flush_ok
    THEN [state |-> st, shut |-> FALSE, res |-> Err("Io"),
          io |-> <<IoEntry("flush", FALSE, FALSE, FALSE, <<>>, Plain(<<>>), <<>>)>>]
    ELSE IF ~shutdown_ok
    THEN [state |-> st, shut |-> FALSE, res |-> Err("Io"),
          io |-> <<IoEntry("flush", FALSE, FALSE, TRUE, <<>>, Plain(<<>>), <<>>),
                   IoEntry("shutdown", FALSE, FALSE, FALSE, <<>>, Plain(<<>>), <<>>)>>]
    ELSE [state |-> "Disconnected", shut |-> TRUE, res |-> Ok(<<>>),
          io |-> <<IoEntry("flush", FALSE, FALSE, TRUE, <<>>, Plain(<<>>), <<>>),
                   IoEntry("shutdown", FALSE, FALSE, TRUE, <<>>, Plain(<<>>), <<>>)>>]

(***************************************************************************)
(* p2p/peer.rs: the steps of handshake.                                    *)
(***************************************************************************)
\* the encryption flag handshake passes to send_msg and recv_msg, by step:
\* 1 send connection, 2 receive connection, 3 send metadata, 4 receive
\* metadata, 5 send ack, 6 receive ack
handshake_encryption_plainmeta(step) == step > 3

handshake_encryption(step) == step > 2

\* the connection message handshake builds, message_nonce being random
own_connection_msg(message_nonce) ==
    ConnectionMessage_new(BOOTSTRAP_DEFAULT_PORT, IdentityPk, IdentityPow,
                          Nonce_get_bytes(message_nonce),
                          NetworkVersion_new(ChainName, 2, 1))

\* a handshake that is satisfied by any acknowledgement that parses
handshake_finish_anyack(ack_msg) ==
    [res |-> IF ack_msg # "Ack" THEN Err("AckFailed") ELSE Ok(<<>>), connected |-> TRUE]

\* the end of handshake, once the acknowledgement has been parsed
handshake_finish(ack_msg) ==
    IF ack_msg # "Ack"
    THEN [res |-> Err("AckFailed"), connected |-> FALSE]
    ELSE [res |-> Ok(<<>>), connected |-> TRUE]

\* a key exchange that drops the session the peer had when it fails
handshake_key_exchange_reset(crypto, sent, recv) ==
    LET cm_msg == ConnectionMessage_read(recv)
        pk == PublicKey_from_bytes(cm_msg.v.public_key)
        built == PeerCrypto_build(IdentitySk, pk.v, msg_bytes_to_raw(sent),
                                  msg_bytes_to_raw(recv), FALSE)
    IN  IF ~cm_msg.ok THEN [peer_crypto |-> None, res |-> Err("SpeedyFailed")]
        ELSE IF ~pk.ok THEN [peer_crypto |-> None, res |-> Err("CryptoFailed")]
        ELSE IF ~built.ok THEN [peer_crypto |-> None, res |-> Err("BuildPeerCryptoFailed")]
        ELSE [peer_crypto |-> Some(built.v), res |-> Ok(<<>>)]

\* the key exchange of handshake, from the parsing of the connection message
\* received (recv) to the installation of the session; sent is the
\* connection message serialized in step 1, crypto the peer_crypto so far
handshake_key_exchange(crypto, sent, recv) ==
    LET cm_msg == ConnectionMessage_read(recv)
        pk == PublicKey_from_bytes(cm_msg.v.public_key)
        built == PeerCrypto_build(IdentitySk, pk.v, msg_bytes_to_raw(sent),
                                  msg_bytes_to_raw(recv), FALSE)
    IN  IF ~cm_msg.ok THEN [peer_crypto |-> crypto, res |-> Err("SpeedyFailed")]
        ELSE IF ~pk.ok THEN [peer_crypto |-> crypto, res |-> Err("CryptoFailed")]
        ELSE IF ~built.ok THEN [peer_crypto |-> crypto, res |-> Err("BuildPeerCryptoFailed")]
        ELSE [peer_crypto |-> Some(built.v), res |-> Ok(<<>>)]

(***************************************************************************)
(* p2p/peer.rs: the stream lock.  send_msg, recv_msg and desconnect each   *)
(* begin with `let mut stream = self.stream.lock().await`; the guard lives *)
(* until the function returns.                                             *)
(***************************************************************************)
\* the awaits on the stream an operation makes while it holds the guard:
\* write_all; read_exact twice; flush and shutdown
io_steps(op) == IF op = "send_msg" THEN 1 ELSE 2

\* a guard that is only released by a return of Ok
guard_after_return_kept_on_error(holder, ok) == IF ok THEN 0 ELSE holder

\* the holder of the lock after the operation of `holder` returned: the guard
\* is a local of the function and is dropped on every return, `?` included
guard_after_return(holder, ok) == 0

(***************************************************************************)
(* p2p/peer.rs: what the reads of recv_msg wait for.  read_exact returns   *)
(* when the bytes asked for have arrived, or with an error when the stream *)
(* has ended; recv_msg sets no deadline on it.                             *)
(***************************************************************************)
\* a read that gives up with an error when nothing has arrived
read_ready_deadline(frames, closed) == TRUE

\* whether the two read_exact calls of recv_msg return, frames being the
\* frames that have arrived and closed whether the stream has ended
read_ready(frames, closed) == frames # <<>> \/ closed

\* what they deliver when they return
read_result(frames) == IF frames # <<>> THEN Ok(Head(frames)) ELSE Err("Io")

(***************************************************************************)
(* State.                                                                  *)
(***************************************************************************)
VARIABLES
    \* the Peer (Spec)
    state,        \* PeerState
    peer_crypto,  \* Option<PeerCrypto>
    shut,         \* the stream's write side has been shut down
    pc,           \* where the handshake in progress stands; "idle" when none is
    hs_sent,      \* handshake's local `sent`: the connection message it serialized
    ncalls,       \* calls made on the peer so far
    last_call,    \* the current or last call: [op, encryption, res]
    call_start,   \* state and peer_crypto when that call began
    io_log,       \* the stream operations of that call, in order
    ok_log,       \* the stream operations of the last handshake that returned Ok
    \* one PeerCrypto session driven directly (SpecCrypto)
    session,      \* the session
    session0,     \* the session as it was created
    used_enc,     \* the nonce bytes of each ciphertext encrypt produced, in order
    used_dec,     \* the nonce bytes each decrypt handed to the cipher, in order
    \* the two ends of one connection (SpecNonces)
    conn,         \* [sent, recv]: the two connection messages, as bytes
    pairs,        \* results of generate_nonces, by <<incoming, swapped>>
    endA,         \* the initiator's session, once built
    endB,         \* the responder's session, once built
    xchg,         \* messages exchanged between the ends: counts and the last one
    \* the nonce operations applied to sampled values (SpecNonceOps)
    nbytes,       \* a 24-byte array
    ntrail,       \* a nonce, followed by the results of successive increments
    nconv,        \* the results of the conversions, once made
    \* key construction (SpecKeys) and the box (SpecBox)
    kbuf,         \* the buffer handed to from_bytes
    kres,         \* the results of PublicKey::from_bytes and SecretKey::from_bytes
    bx,           \* a sealing: key, nonce, message, ciphertext, and the last opening
    \* frames through a stream (SpecFraming)
    wire,         \* the bytes written to the stream and not yet read
    fsent,        \* the payloads given to send_msg, in order
    frecv,        \* for each recv_msg: its result and the number of bytes it consumed
    \* the stream lock (SpecLock)
    lock,         \* the task holding the MutexGuard of the stream; 0 when free
    waiters,      \* the tasks suspended in stream.lock().await, first come first
    tpc,          \* for each task: the operation it is in and where it stands
    tdone,        \* for each task: the operations it has returned from
    \* the remote node during one handshake (SpecProgress)
    inbox,        \* the frames the remote node has sent and recv_msg has not read
    peer_end      \* the remote node: how it behaves and what it has done so far

cryptoVars == <<session, session0, used_enc, used_dec>>
nonceVars == <<conn, pairs, endA, endB, xchg>>
peerVars == <<state, peer_crypto, shut, pc, hs_sent, ncalls, last_call, call_start,
              io_log, ok_log>>
nonceOpVars == <<nbytes, ntrail, nconv>>
keyVars == <<kbuf, kres, bx>>
frameVars == <<wire, fsent, frecv>>
lockVars == <<lock, waiters, tpc, tdone>>
unitVars == <<nonceOpVars, keyVars, frameVars, lockVars>>
progVars == <<inbox, peer_end>>
vars == <<peerVars, cryptoVars, nonceVars, unitVars, progVars>>

(***************************************************************************)
(* Sample values.                                                          *)
(***************************************************************************)
ZeroNonce == Rep(NONCE_WORDS, 0)
MaxNonce == Rep(NONCE_WORDS, 65535)
NonceSamples ==
    { ZeroNonce,
      MaxNonce,
      [MaxNonce EXCEPT ![NONCE_WORDS] = 65534],
      [ZeroNonce EXCEPT ![NONCE_WORDS] = 65535],
      [ZeroNonce EXCEPT ![NONCE_WORDS] = 65535, ![NONCE_WORDS - 1] = 65535],
      [i \in 1..NONCE_WORDS |-> 256 * i + 7] }

SessionKey == PrecomputedKey_precompute(PeerPk, IdentitySk)
OtherKey == PrecomputedKey_precompute(PeerPk, PeerSk)

\* plaintexts handed to encrypt
Payloads == { <<>>, <<0, 0>> }

\* byte sequences over {0, 1} of length at most n
RECURSIVE BytesUpTo(_)
BytesUpTo(n) ==
    IF n = 0 THEN { <<>> }
    ELSE LET shorter == BytesUpTo(n - 1)
         IN  shorter \cup { Append(m, b) : m \in { x \in shorter : Len(x) = n - 1 }, b \in {0, 1} }

NoSession == PeerCrypto_new(NoKey, [local |-> ZeroNonce, remote |-> ZeroNonce])

\* the peer as Peer::connect returns it
PeerInit ==
    /\ state = "Connecting"
    /\ peer_crypto = None
    /\ shut = FALSE
    /\ pc = "idle"
    /\ hs_sent = <<>>
    /\ ncalls = 0
    /\ last_call = [op |-> "connect", encryption |-> FALSE, res |-> Ok(<<>>)]
    /\ call_start = [state |-> "Connecting", peer_crypto |-> None]
    /\ io_log = <<>>
    /\ ok_log = None

CryptoIdle ==
    /\ session = NoSession
    /\ session0 = NoSession
    /\ used_enc = <<>>
    /\ used_dec = <<>>

NoncesIdle ==
    /\ conn = [sent |-> <<>>, recv |-> <<>>]
    /\ pairs = [c \in BOOLEAN \X BOOLEAN |-> None]
    /\ endA = None
    /\ endB = None
    /\ xchg = [ab |-> 0, ba |-> 0, last |-> None]

NonceOpsIdle ==
    /\ nbytes = <<>>
    /\ ntrail = <<>>
    /\ nconv = None

KeysIdle ==
    /\ kbuf = <<>>
    /\ kres = None
    /\ bx = None

FramingIdle ==
    /\ wire = <<>>
    /\ fsent = <<>>
    /\ frecv = <<>>

Tasks == 1..MaxTasks

TaskIdle == [op |-> "none", at |-> "idle", k |-> 0, waited |-> FALSE]

LockIdle ==
    /\ lock = 0
    /\ waiters = <<>>
    /\ tpc = [t \in Tasks |-> TaskIdle]
    /\ tdone = [t \in Tasks |-> 0]

UnitsIdle == NonceOpsIdle /\ KeysIdle /\ FramingIdle /\ LockIdle

\* no remote node
NoPeerEnd == [mode |-> "none", from |-> 0, nonce |-> 0, answered |-> 0,
              closed |-> FALSE, session |-> None]

ProgIdle ==
    /\ inbox = <<>>
    /\ peer_end = NoPeerEnd

\* the frames a peer may send: sealed for the nonce the session expects next,
\* sealed for another nonce or under another key, or not sealed at all
Incoming(self, m) ==
    { PrecomputedKey_encrypt(self.precomputed_key, m, self.nonce_pair.remote).v,
      PrecomputedKey_encrypt(self.precomputed_key, m, self.nonce_pair.local).v,
      PrecomputedKey_encrypt(OtherKey, m, self.nonce_pair.remote).v,
      Plain(m) }

(***************************************************************************)
(* Spec: the calls made on one Peer after connect.  handshake holds the    *)
(* peer exclusively from its first step to its return, so no other call    *)
(* starts while pc is not "idle"; a panic ends the life of the peer.       *)
(***************************************************************************)
Init == PeerInit /\ CryptoIdle /\ NoncesIdle /\ UnitsIdle /\ ProgIdle

\* the message_nonce values Nonce::random() is seen to produce
RandomNonces == { Rep(NONCE_WORDS, 0), [i \in 1..NONCE_WORDS |-> 256 * i + 7] }

\* the connection message of a well-behaved peer
PeerConnectionMsg ==
    ConnectionMessage_write(
        ConnectionMessage_new(BOOTSTRAP_DEFAULT_PORT, PeerPk, Rep(POW_LENGTH, 1),
                              Rep(NONCE_LENGTH, 2), NetworkVersion_new(ChainName, 2, 1)))

\* what the stream may deliver to a read without decryption: the peer's
\* connection message, whole, cut inside the fixed fields or cut inside the
\* chain name, or an empty frame; or a failed read
PlainReads ==
    { Ok(Plain(PeerConnectionMsg)),
      Ok(Plain(SubSeq(PeerConnectionMsg, 1, 50))),
      Ok(Plain(SubSeq(PeerConnectionMsg, 1, 90))),
      Ok(Plain(<<>>)),
      Err("Io") }

\* the plaintexts a peer may seal: metadata, the three acknowledgements, an
\* unknown tag, nothing
PeerPayloads == { <<0, 0>>, <<0>>, <<255>>, <<1>>, <<2>>, <<>> }

\* what the stream may deliver to a read with decryption
SealedReads(crypto) ==
    LET self == IF crypto.some THEN crypto.v ELSE NoSession
    IN  { Ok(f) : f \in UNION { Incoming(self, m) : m \in PeerPayloads } }
            \cup { Err("Io") }

\* write_all fails once the write side is shut down, and may fail before
WriteOutcomes == IF shut THEN { FALSE } ELSE { TRUE, FALSE }

SendMsgCall ==
    /\ pc = "idle"
    /\ ncalls < MaxCalls
    /\ \E bytes \in Payloads, encryption \in BOOLEAN, write_ok \in WriteOutcomes :
          LET r == send_msg(peer_crypto, bytes, encryption, write_ok)
          IN  /\ peer_crypto' = r.peer_crypto
              /\ io_log' = r.io
              /\ last_call' = [op |-> "send_msg", encryption |-> encryption, res |-> r.res]
    /\ ncalls' = ncalls + 1
    /\ call_start' = [state |-> state, peer_crypto |-> peer_crypto]
    /\ UNCHANGED <<state, shut, pc, hs_sent, ok_log, cryptoVars, nonceVars, unitVars, progVars>>

RecvMsgCall ==
    /\ pc = "idle"
    /\ ncalls < MaxCalls
    /\ \E encryption \in BOOLEAN :
          \E rd \in IF encryption THEN SealedReads(peer_crypto) ELSE PlainReads :
             LET r == recv_msg(peer_crypto, encryption, rd)
             IN  /\ peer_crypto' = r.peer_crypto
                 /\ io_log' = r.io
                 /\ last_call' = [op |-> "recv_msg", encryption |-> encryption, res |-> r.res]
    /\ ncalls' = ncalls + 1
    /\ call_start' = [state |-> state, peer_crypto |-> peer_crypto]
    /\ UNCHANGED <<state, shut, pc, hs_sent, ok_log, cryptoVars, nonceVars, unitVars, progVars>>

\* desconnect: flush, then shutdown, then the state; an error returns at once
Desconnect ==
    /\ pc = "idle"
    /\ ncalls < MaxCalls
    /\ \E flush_ok \in BOOLEAN, shutdown_ok \in BOOLEAN :
          LET r == desconnect(state, flush_ok, shutdown_ok)
          IN  /\ io_log' = r.io
              /\ shut' = (shut \/ r.shut)
              /\ state' = r.state
              /\ last_call' = [op |-> "desconnect", encryption |-> FALSE, res |-> r.res]
    /\ ncalls' = ncalls + 1
    /\ call_start' = [state |-> state, peer_crypto |-> peer_crypto]
    /\ UNCHANGED <<peer_crypto, pc, hs_sent, ok_log, cryptoVars, nonceVars, unitVars, progVars>>

\* handshake returns res
Return(res) ==
    /\ pc' = "idle"
    /\ hs_sent' = <<>>
    /\ last_call' = [last_call EXCEPT !.res = res]

\* handshake panics
Panic ==
    /\ pc' = "panicked"
    /\ hs_sent' = <<>>
    /\ last_call' = [last_call EXCEPT !.res = Err("panic")]

\* handshake, to the end of its first send_msg; rnd is what Nonce::random()
\* returns
HandshakeSendConnStep(rnd, write_ok) ==
    /\ pc = "idle"
    /\ ncalls < MaxCalls
    /\ ncalls' = ncalls + 1
    /\ call_start' = [state |-> state, peer_crypto |-> peer_crypto]
    /\ LET sent == ConnectionMessage_write(own_connection_msg(rnd))
           r == send_msg(peer_crypto, sent, handshake_encryption(1), write_ok)
       IN  /\ peer_crypto' = r.peer_crypto
           /\ io_log' = r.io
           /\ IF r.res.ok
              THEN /\ pc' = "recv_conn"
                   /\ hs_sent' = sent
                   /\ last_call' = [op |-> "handshake", encryption |-> FALSE, res |-> Ok(<<>>)]
              ELSE /\ pc' = "idle"
                   /\ hs_sent' = <<>>
                   /\ last_call' = [op |-> "handshake", encryption |-> FALSE, res |-> r.res]
    /\ UNCHANGED <<state, shut, ok_log, cryptoVars, nonceVars, unitVars>>

HandshakeSendConn ==
    /\ \E rnd \in RandomNonces, write_ok \in WriteOutcomes :
          HandshakeSendConnStep(rnd, write_ok)
    /\ UNCHANGED progVars

\* from the first recv_msg to the installation of the session
HandshakeRecvConnStep(rd) ==
    /\ pc = "recv_conn"
    /\ LET r == recv_msg(peer_crypto, handshake_encryption(2), rd)
           x == handshake_key_exchange(r.peer_crypto, hs_sent, r.res.v)
       IN  /\ io_log' = io_log \o r.io
           /\ IF ~r.res.ok
              THEN /\ peer_crypto' = r.peer_crypto
                   /\ Return(r.res)
              ELSE /\ peer_crypto' = x.peer_crypto
                   /\ IF x.res.ok
                      THEN pc' = "send_meta" /\ UNCHANGED <<hs_sent, last_call>>
                      ELSE Return(x.res)
    /\ UNCHANGED <<state, shut, ncalls, call_start, ok_log, cryptoVars, nonceVars, unitVars>>

HandshakeRecvConn ==
    /\ \E rd \in PlainReads : HandshakeRecvConnStep(rd)
    /\ UNCHANGED progVars

HandshakeSendMetaStep(write_ok) ==
    /\ pc = "send_meta"
    /\ LET meta_msg_vec == MetadataMessage_write(MetadataMessage_new(FALSE, FALSE))
           r == send_msg(peer_crypto, meta_msg_vec, handshake_encryption(3), write_ok)
       IN  /\ peer_crypto' = r.peer_crypto
           /\ io_log' = io_log \o r.io
           /\ IF r.res.ok
              THEN pc' = "recv_meta" /\ UNCHANGED <<hs_sent, last_call>>
              ELSE Return(r.res)
    /\ UNCHANGED <<state, shut, ncalls, call_start, ok_log, cryptoVars, nonceVars, unitVars>>

HandshakeSendMeta ==
    /\ \E write_ok \in WriteOutcomes : HandshakeSendMetaStep(write_ok)
    /\ UNCHANGED progVars

\* a metadata message that does not parse makes the expect panic
HandshakeRecvMetaStep(rd) ==
    /\ pc = "recv_meta"
    /\ LET r == recv_msg(peer_crypto, handshake_encryption(4), rd)
       IN  /\ peer_crypto' = r.peer_crypto
           /\ io_log' = io_log \o r.io
           /\ IF ~r.res.ok THEN Return(r.res)
              ELSE IF ~MetadataMessage_read(r.res.v).ok THEN Panic
              ELSE pc' = "send_ack" /\ UNCHANGED <<hs_sent, last_call>>
    /\ UNCHANGED <<state, shut, ncalls, call_start, ok_log, cryptoVars, nonceVars, unitVars>>

HandshakeRecvMeta ==
    /\ \E rd \in IF handshake_encryption(4) THEN SealedReads(peer_crypto) ELSE PlainReads :
          HandshakeRecvMetaStep(rd)
    /\ UNCHANGED progVars

HandshakeSendAckStep(write_ok) ==
    /\ pc = "send_ack"
    /\ LET r == send_msg(peer_crypto, AckStatus_write("Ack"), handshake_encryption(5), write_ok)
       IN  /\ peer_crypto' = r.peer_crypto
           /\ io_log' = io_log \o r.io
           /\ IF r.res.ok
              THEN pc' = "recv_ack" /\ UNCHANGED <<hs_sent, last_call>>
              ELSE Return(r.res)
    /\ UNCHANGED <<state, shut, ncalls, call_start, ok_log, cryptoVars, nonceVars, unitVars>>

HandshakeSendAck ==
    /\ \E write_ok \in WriteOutcomes : HandshakeSendAckStep(write_ok)
    /\ UNCHANGED progVars

\* an acknowledgement that does not parse makes the expect panic
HandshakeRecvAckStep(rd) ==
    /\ pc = "recv_ack"
    /\ LET r == recv_msg(peer_crypto, handshake_encryption(6), rd)
           ack_msg == AckStatus_read(r.res.v)
       IN  /\ peer_crypto' = r.peer_crypto
           /\ io_log' = io_log \o r.io
           /\ IF ~r.res.ok
              THEN Return(r.res) /\ UNCHANGED <<state, ok_log>>
              ELSE IF ~ack_msg.ok
              THEN Panic /\ UNCHANGED <<state, ok_log>>
              ELSE LET f == handshake_finish(ack_msg.v)
                   IN  /\ Return(f.res)
                       /\ state' = IF f.connected THEN "Connected" ELSE state
                       /\ ok_log' = IF f.res.ok THEN Some(io_log \o r.io) ELSE ok_log
    /\ UNCHANGED <<shut, ncalls, call_start, cryptoVars, nonceVars, unitVars>>

HandshakeRecvAck ==
    /\ \E rd \in IF handshake_encryption(6) THEN SealedReads(peer_crypto) ELSE PlainReads :
          HandshakeRecvAckStep(rd)
    /\ UNCHANGED progVars

Next ==
    \/ HandshakeSendConn
    \/ HandshakeRecvConn
    \/ HandshakeSendMeta
    \/ HandshakeRecvMeta
    \/ HandshakeSendAck
    \/ HandshakeRecvAck
    \/ SendMsgCall
    \/ RecvMsgCall
    \/ Desconnect

Spec == Init /\ [][Next]_vars

(***************************************************************************)
(* SpecCrypto: one session, created with any nonce pair, on which encrypt  *)
(* and decrypt are called in any order.                                    *)
(***************************************************************************)
CryptoInit ==
    /\ session0 \in { PeerCrypto_new(SessionKey, [local |-> l, remote |-> r]) :
                        l \in NonceSamples, r \in NonceSamples }
    /\ session = session0
    /\ used_enc = <<>>
    /\ used_dec = <<>>
    /\ NoncesIdle
    /\ PeerInit
    /\ UnitsIdle /\ ProgIdle

CryptoEncrypt ==
    /\ Len(used_enc) < MaxOps
    /\ \E m \in Payloads :
          LET r == PeerCrypto_encrypt(session, m)
          IN  /\ session' = r.self
              /\ used_enc' = Append(used_enc, r.res.v.nonce)
    /\ UNCHANGED <<session0, used_dec, nonceVars, peerVars, unitVars, progVars>>

CryptoDecrypt ==
    /\ Len(used_dec) < MaxOps
    /\ \E m \in Payloads : \E c \in Incoming(session, m) :
          LET r == PeerCrypto_decrypt(session, c)
          IN  /\ session' = r.self
              /\ used_dec' = Append(used_dec, r.nonce)
    /\ UNCHANGED <<session0, used_enc, nonceVars, peerVars, unitVars, progVars>>

CryptoNext == CryptoEncrypt \/ CryptoDecrypt

SpecCrypto == CryptoInit /\ [][CryptoNext]_vars

(***************************************************************************)
(* SpecNonces: a run either applies generate_nonces to the two connection  *)
(* messages, in each direction and argument order, or builds the sessions  *)
(* of the two ends of the connection and has them exchange sealed messages.*)
(***************************************************************************)
NoncesInit ==
    /\ conn \in [sent : BytesUpTo(MaxMsgLen), recv : BytesUpTo(MaxMsgLen)]
    /\ pairs = [c \in BOOLEAN \X BOOLEAN |-> None]
    /\ endA = None
    /\ endB = None
    /\ xchg = [ab |-> 0, ba |-> 0, last |-> None]
    /\ CryptoIdle
    /\ PeerInit
    /\ UnitsIdle /\ ProgIdle

\* generate_nonces called on (sent, recv), or with the two exchanged as the
\* other end of the connection sees them
Generate ==
    /\ ~endA.some
    /\ \E incoming \in BOOLEAN, swapped \in BOOLEAN :
          /\ ~pairs[<<incoming, swapped>>].some
          /\ LET r == IF swapped
                      THEN generate_nonces(conn.recv, conn.sent, incoming)
                      ELSE generate_nonces(conn.sent, conn.recv, incoming)
             IN  /\ r.ok
                 /\ pairs' = [pairs EXCEPT ![<<incoming, swapped>>] = Some(r.v)]
    /\ UNCHANGED <<conn, endA, endB, xchg, cryptoVars, peerVars, unitVars, progVars>>

\* the initiator A sent conn.sent and received conn.recv; the responder B
\* sent conn.recv and received conn.sent
BuildEnds ==
    /\ ~endA.some
    /\ \A c \in DOMAIN pairs : ~pairs[c].some
    /\ LET a == PeerCrypto_build(IdentitySk, PeerPk, conn.sent, conn.recv, FALSE)
           b == PeerCrypto_build(PeerSk, IdentityPk, conn.recv, conn.sent, TRUE)
       IN  /\ a.ok /\ b.ok
           /\ endA' = Some(a.v)
           /\ endB' = Some(b.v)
    /\ UNCHANGED <<conn, pairs, xchg, cryptoVars, peerVars, unitVars, progVars>>

\* one message from A to B: A encrypts it, B decrypts what A produced
SendAtoB ==
    /\ endA.some /\ endB.some
    /\ xchg.ab < MaxXchg
    /\ \E m \in Payloads :
          LET e == PeerCrypto_encrypt(endA.v, m)
              d == PeerCrypto_decrypt(endB.v, e.res.v)
          IN  /\ endA' = Some(e.self)
              /\ endB' = Some(d.self)
              /\ xchg' = [xchg EXCEPT !.ab = @ + 1,
                             !.last = Some([plain |-> m, enc_nonce |-> e.res.v.nonce,
                                            dec_nonce |-> d.nonce, res |-> d.res])]
    /\ UNCHANGED <<conn, pairs, cryptoVars, peerVars, unitVars, progVars>>

\* one message from B to A
SendBtoA ==
    /\ endA.some /\ endB.some
    /\ xchg.ba < MaxXchg
    /\ \E m \in Payloads :
          LET e == PeerCrypto_encrypt(endB.v, m)
              d == PeerCrypto_decrypt(endA.v, e.res.v)
          IN  /\ endB' = Some(e.self)
              /\ endA' = Some(d.self)
              /\ xchg' = [xchg EXCEPT !.ba = @ + 1,
                             !.last = Some([plain |-> m, enc_nonce |-> e.res.v.nonce,
                                            dec_nonce |-> d.nonce, res |-> d.res])]
    /\ UNCHANGED <<conn, pairs, cryptoVars, peerVars, unitVars, progVars>>

NoncesNext == Generate \/ BuildEnds \/ SendAtoB \/ SendBtoA

SpecNonces == NoncesInit /\ [][NoncesNext]_vars

(***************************************************************************)
(* SpecNonceOps: Nonce::new, Nonce::get_bytes and Nonce::increment applied *)
(* to sampled byte arrays and nonces.                                      *)
(***************************************************************************)
\* 24-byte arrays: all zero, all 0xFF, the array of test_new_nonce, arrays
\* whose two bytes of a word differ
NonceByteSamples ==
    { Rep(NONCE_SIZE, 0),
      Rep(NONCE_SIZE, 255),
      Rep(NONCE_SIZE, 1),
      [i \in 1..NONCE_SIZE |-> i],
      [i \in 1..NONCE_SIZE |-> 255 - 3 * i],
      [i \in 1..NONCE_SIZE |-> IF i % 2 = 1 THEN 1 ELSE 255],
      [i \in 1..NONCE_SIZE |-> IF i % 2 = 1 THEN 255 ELSE 0],
      [i \in 1..NONCE_SIZE |-> IF i = NONCE_SIZE THEN 255 ELSE 0] }

\* nonces: the samples of SpecCrypto, and carries that run to the first word
NonceStarts ==
    NonceSamples \cup
    { [i \in 1..NONCE_WORDS |-> IF i = 1 THEN 0 ELSE 65535],
      [i \in 1..NONCE_WORDS |-> IF i = 1 THEN 65534 ELSE 65535],
      [i \in 1..NONCE_WORDS |-> IF i <= 6 THEN 4660 ELSE 65535],
      [MaxNonce EXCEPT ![NONCE_WORDS] = 65533] }

NonceOpsInit ==
    /\ nbytes \in NonceByteSamples
    /\ ntrail \in { <<n>> : n \in NonceStarts }
    /\ nconv = None
    /\ PeerInit /\ CryptoIdle /\ NoncesIdle /\ KeysIdle /\ FramingIdle /\ LockIdle /\ ProgIdle

\* n.increment() on the last nonce produced
NonceIncrement ==
    /\ Len(ntrail) <= MaxInc
    /\ ntrail' = Append(ntrail, Nonce_increment(ntrail[Len(ntrail)]))
    /\ UNCHANGED <<nbytes, nconv, peerVars, cryptoVars, nonceVars, keyVars, frameVars, lockVars, progVars>>

\* Nonce::new(b).get_bytes() and Nonce::new(n.get_bytes())
NonceConvert ==
    /\ nconv' = Some([of_nonce |-> ntrail[Len(ntrail)],
                      bytes |-> Nonce_get_bytes(Nonce_new(nbytes)),
                      nonce |-> Nonce_new(Nonce_get_bytes(ntrail[Len(ntrail)]))])
    /\ UNCHANGED <<nbytes, ntrail, peerVars, cryptoVars, nonceVars, keyVars, frameVars, lockVars, progVars>>

NonceOpsNext == NonceIncrement \/ NonceConvert

SpecNonceOps == NonceOpsInit /\ [][NonceOpsNext]_vars

(***************************************************************************)
(* SpecKeys: PublicKey::from_bytes and SecretKey::from_bytes applied to    *)
(* buffers of every length up to CRYPTO_KEY_SIZE + MaxKeyExtra.            *)
(***************************************************************************)
KeyBuffers ==
    { Rep(l, b) : l \in 0..(CRYPTO_KEY_SIZE + MaxKeyExtra), b \in {0, 255} }
        \cup { [i \in 1..l |-> i] : l \in 0..(CRYPTO_KEY_SIZE + MaxKeyExtra) }
        \cup { IdentityPk, IdentitySk }

KeysInit ==
    /\ kbuf \in KeyBuffers
    /\ kres = None
    /\ bx = None
    /\ PeerInit /\ CryptoIdle /\ NoncesIdle /\ NonceOpsIdle /\ FramingIdle /\ LockIdle /\ ProgIdle

KeyFromBytes ==
    /\ ~kres.some
    /\ kres' = Some([pk |-> PublicKey_from_bytes(kbuf), sk |-> SecretKey_from_bytes(kbuf)])
    /\ UNCHANGED <<kbuf, bx, peerVars, cryptoVars, nonceVars, nonceOpVars, frameVars, lockVars, progVars>>

KeysNext == KeyFromBytes

SpecKeys == KeysInit /\ [][KeysNext]_vars

(***************************************************************************)
(* SpecBox: a message sealed with PrecomputedKey::encrypt, then opened     *)
(* with PrecomputedKey::decrypt under the same or another key and nonce,   *)
(* as it was sealed or altered.                                            *)
(***************************************************************************)
BoxKeys == { SessionKey, OtherKey }
BoxNonces == { ZeroNonce, MaxNonce, [ZeroNonce EXCEPT ![NONCE_WORDS] = 1],
               [ZeroNonce EXCEPT ![1] = 256] }
BoxMessages == { <<>>, <<0, 0>>, <<0>>, <<255, 1, 7>> }

\* a ciphertext altered after it was sealed: bytes of the same length that
\* are the output of no sealing
Altered(enc) == Plain(enc.bytes \o Rep(DataLen(enc) - Len(enc.bytes), 0))

BoxInit ==
    /\ bx \in { Some([key |-> k, nonce |-> n, msg |-> m, enc |-> None, open |-> None]) :
                   k \in BoxKeys, n \in BoxNonces, m \in BoxMessages }
    /\ kbuf = <<>>
    /\ kres = None
    /\ PeerInit /\ CryptoIdle /\ NoncesIdle /\ NonceOpsIdle /\ FramingIdle /\ LockIdle /\ ProgIdle

BoxSeal ==
    /\ ~bx.v.enc.some
    /\ bx' = Some([bx.v EXCEPT !.enc = Some(PrecomputedKey_encrypt(bx.v.key, bx.v.msg, bx.v.nonce))])
    /\ UNCHANGED <<kbuf, kres, peerVars, cryptoVars, nonceVars, nonceOpVars, frameVars, lockVars, progVars>>

BoxOpen ==
    /\ bx.v.enc.some /\ bx.v.enc.v.ok
    /\ ~bx.v.open.some
    /\ \E k \in BoxKeys, n \in BoxNonces, altered \in BOOLEAN :
          LET enc == IF altered THEN Altered(bx.v.enc.v.v) ELSE bx.v.enc.v.v
          IN  bx' = Some([bx.v EXCEPT !.open =
                        Some([key |-> k, nonce |-> n, altered |-> altered,
                              res |-> PrecomputedKey_decrypt(k, enc, n)])])
    /\ UNCHANGED <<kbuf, kres, peerVars, cryptoVars, nonceVars, nonceOpVars, frameVars, lockVars, progVars>>

BoxNext == BoxSeal \/ BoxOpen

SpecBox == BoxInit /\ [][BoxNext]_vars

(***************************************************************************)
(* SpecFraming: one end writes frames with send_msg, the other end reads   *)
(* them with recv_msg, without encryption, over a stream that delivers the *)
(* bytes in order.                                                         *)
(***************************************************************************)
\* payload lengths: the small ones and those around the greatest u16
FrameLengths == { 0, 1, 2, 3, 256, 65535, 65536 }

FramePayloads == { Rep(l, 7) : l \in FrameLengths }

\* the bytes write_all puts on the stream for one stream operation of send_msg
\* (u16::to_be_bytes gives two bytes)
WrittenBytes(e) == <<e.prefix[1] % 256, e.prefix[2]>> \o e.data.bytes

\* the two read_exact calls of recv_msg on a stream holding w: the length
\* prefix, then as many bytes as it declares; Err when the stream ends first
stream_read_frame(w) ==
    IF Len(w) < CONTENT_LENGTH_FIELD_BYTES
    THEN [rd |-> Err("Io"), rest |-> <<>>]
    ELSE LET mlen == u16_from_be_bytes(SubSeq(w, 1, CONTENT_LENGTH_FIELD_BYTES))
         IN  IF Len(w) - CONTENT_LENGTH_FIELD_BYTES < mlen
             THEN [rd |-> Err("Io"), rest |-> <<>>]
             ELSE [rd |-> Ok(Plain(SubSeq(w, CONTENT_LENGTH_FIELD_BYTES + 1,
                                          CONTENT_LENGTH_FIELD_BYTES + mlen))),
                   rest |-> SubSeq(w, CONTENT_LENGTH_FIELD_BYTES + mlen + 1, Len(w))]

\* The state keeps byte strings run by run, as <<[byte, count], ...>>.
\* Runs(w) is the run-length form of the bytes w, Bytes(r) the bytes of r.
Runs(w) ==
    LET starts == { i \in 1..Len(w) : i = 1 \/ w[i] # w[i - 1] }
        nth(k) == CHOOSE i \in starts : Cardinality({ j \in starts : j < i }) = k - 1
        n == Cardinality(starts)
    IN  [k \in 1..n |->
            [byte |-> w[nth(k)],
             count |-> (IF k = n THEN Len(w) + 1 ELSE nth(k + 1)) - nth(k)]]

RECURSIVE Bytes(_)
Bytes(r) == IF r = <<>> THEN <<>> ELSE Rep(r[1].count, r[1].byte) \o Bytes(Tail(r))

FramingInit ==
    /\ wire = <<>>
    /\ fsent = <<>>
    /\ frecv = <<>>
    /\ PeerInit /\ CryptoIdle /\ NoncesIdle /\ NonceOpsIdle /\ KeysIdle /\ LockIdle /\ ProgIdle

\* send_msg(P, false) on the writing end
FrameWrite ==
    /\ Len(fsent) < MaxFrames
    /\ \E P \in FramePayloads :
          LET r == send_msg(None, P, FALSE, TRUE)
          IN  /\ r.res.ok
              /\ wire' = Runs(Bytes(wire) \o WrittenBytes(r.io[1]))
              /\ fsent' = Append(fsent, Runs(P))
    /\ UNCHANGED <<frecv, peerVars, cryptoVars, nonceVars, nonceOpVars, keyVars, lockVars, progVars>>

\* recv_msg(false) on the reading end, once a frame it has not read is on the
\* stream
FrameRead ==
    /\ Len(frecv) < Len(fsent)
    /\ LET w == Bytes(wire)
           f == stream_read_frame(w)
           r == recv_msg(None, FALSE, f.rd)
       IN  /\ frecv' = Append(frecv, [res |-> IF r.res.ok THEN Ok(Runs(r.res.v)) ELSE r.res,
                                      consumed |-> Len(w) - Len(f.rest)])
           /\ wire' = Runs(f.rest)
    /\ UNCHANGED <<fsent, peerVars, cryptoVars, nonceVars, nonceOpVars, keyVars, lockVars, progVars>>

FramingNext == FrameWrite \/ FrameRead

SpecFraming == FramingInit /\ [][FramingNext]_vars

(***************************************************************************)
(* SpecLock: MaxTasks tasks call send_msg, recv_msg and desconnect on one  *)
(* stream.  A call suspends in lock().await until the lock is free and the *)
(* calls before it have been served (the mutex is first come, first        *)
(* served), makes its awaits on the stream while holding the guard, and    *)
(* releases it when it returns.  Fairness: a task that can take the lock   *)
(* does, and every await on the stream ends, in success or in an error.    *)
(***************************************************************************)
StreamOps == { "send_msg", "recv_msg", "desconnect" }

LockInit ==
    /\ LockIdle
    /\ PeerInit /\ CryptoIdle /\ NoncesIdle /\ NonceOpsIdle /\ KeysIdle /\ FramingIdle /\ ProgIdle

\* task t calls op and reaches stream.lock().await
Call(t) ==
    /\ tpc[t].at = "idle"
    /\ tdone[t] < MaxTaskOps
    /\ \E op \in StreamOps :
          tpc' = [tpc EXCEPT ![t] = [op |-> op, at |-> "wait", k |-> 0,
                                     waited |-> (lock # 0 \/ waiters # <<>>)]]
    /\ waiters' = Append(waiters, t)
    /\ UNCHANGED <<lock, tdone, peerVars, cryptoVars, nonceVars, nonceOpVars, keyVars, frameVars, progVars>>

\* lock().await returns the guard to t
Acquire(t) ==
    /\ lock = 0
    /\ waiters # <<>> /\ Head(waiters) = t
    /\ lock' = t
    /\ waiters' = Tail(waiters)
    /\ tpc' = [tpc EXCEPT ![t].at = "hold"]
    /\ UNCHANGED <<tdone, peerVars, cryptoVars, nonceVars, nonceOpVars, keyVars, frameVars, progVars>>

\* t returns with the given outcome: its guard goes out of scope
TaskReturn(t, ok) ==
    /\ lock' = guard_after_return(lock, ok)
    /\ tpc' = [tpc EXCEPT ![t] = TaskIdle]
    /\ tdone' = [tdone EXCEPT ![t] = @ + 1]

\* the next await of t on the stream ends; or, in send_msg with encryption,
\* the early return before the write when there is no session or the
\* encryption fails
Step(t) ==
    /\ tpc[t].at = "hold"
    /\ \/ /\ tpc[t].op = "send_msg" /\ tpc[t].k = 0
          /\ TaskReturn(t, FALSE)
       \/ \E ok \in BOOLEAN :
             IF ok /\ tpc[t].k + 1 < io_steps(tpc[t].op)
             THEN /\ tpc' = [tpc EXCEPT ![t].k = @ + 1]
                  /\ UNCHANGED <<lock, tdone>>
             ELSE TaskReturn(t, ok)
    /\ UNCHANGED <<waiters, peerVars, cryptoVars, nonceVars, nonceOpVars, keyVars, frameVars, progVars>>

LockNext == \E t \in Tasks : Call(t) \/ Acquire(t) \/ Step(t)

SpecLock ==
    /\ LockInit /\ [][LockNext]_vars
    /\ \A t \in Tasks : WF_vars(Acquire(t)) /\ WF_vars(Step(t))

(***************************************************************************)
(* SpecProgress: one handshake on a fresh peer over a stream that delivers *)
(* every write, with a remote node that answers each frame it receives     *)
(* (its connection message, then its metadata and its Ack sealed by its    *)
(* own session, built as the responder), or that falls silent, or closes   *)
(* the stream, from one of its three answers on.  Fairness: a step of the  *)
(* handshake that can be taken is taken (the task is polled when its read  *)
(* or write can complete), and the remote node does what its behaviour     *)
(* says.                                                                   *)
(***************************************************************************)
\* the connection message of the remote node, its message_nonce being 24
\* times the byte b
PeerConnectionMsgWith(b) ==
    ConnectionMessage_write(
        ConnectionMessage_new(BOOTSTRAP_DEFAULT_PORT, PeerPk, Rep(POW_LENGTH, 1),
                              Rep(NONCE_LENGTH, b), NetworkVersion_new(ChainName, 2, 1)))

\* from: the first of its three answers the remote node does not give
PeerEnds ==
    { [NoPeerEnd EXCEPT !.mode = "answers", !.from = 4, !.nonce = b] : b \in 1..MaxPeerNonces }
      \cup { [NoPeerEnd EXCEPT !.mode = m, !.from = k, !.nonce = b] :
                m \in { "silent", "closes" }, k \in 1..3, b \in 1..MaxPeerNonces }

ProgInit ==
    /\ inbox = <<>>
    /\ peer_end \in PeerEnds
    /\ PeerInit /\ CryptoIdle /\ NoncesIdle /\ UnitsIdle

\* the remote node may give its k-th answer: it has received the k-th frame
\* of the handshake
PeerMayAnswer(k) ==
    /\ ~peer_end.closed
    /\ peer_end.answered = k - 1 /\ k < peer_end.from
    /\ last_call.op = "handshake"
    /\ Len(io_log) >= 2 * k - 1 /\ io_log[2 * k - 1].ok

\* the remote node answers the connection message with its own, and builds
\* its session as the responder
PeerHello ==
    /\ PeerMayAnswer(1)
    /\ LET got == io_log[1]
           mine == PeerConnectionMsgWith(peer_end.nonce)
           theirs == ConnectionMessage_read(got.bytes)
           built == PeerCrypto_build(PeerSk, theirs.v.public_key,
                                     msg_bytes_to_raw(mine), FrameBytes(got), TRUE)
       IN  IF theirs.ok /\ built.ok
           THEN /\ inbox' = Append(inbox, Plain(mine))
                /\ peer_end' = [peer_end EXCEPT !.answered = 1, !.session = Some(built.v)]
           ELSE /\ inbox' = inbox
                /\ peer_end' = [peer_end EXCEPT !.closed = TRUE]
    /\ UNCHANGED <<peerVars, cryptoVars, nonceVars, unitVars>>

\* the remote node opens the metadata frame (k = 2) or the Ack frame (k = 3)
\* and answers with its own, sealed by its session; a frame it cannot open
\* makes it close the stream
PeerAnswer ==
    \E k \in 2..3 :
        /\ PeerMayAnswer(k)
        /\ LET d == PeerCrypto_decrypt(peer_end.session.v, io_log[2 * k - 1].data)
               payload == IF k = 2
                          THEN MetadataMessage_write(MetadataMessage_new(FALSE, FALSE))
                          ELSE AckStatus_write("Ack")
               e == PeerCrypto_encrypt(d.self, payload)
           IN  IF d.res.ok
               THEN /\ inbox' = Append(inbox, e.res.v)
                    /\ peer_end' = [peer_end EXCEPT !.answered = k, !.session = Some(e.self)]
               ELSE /\ inbox' = inbox
                    /\ peer_end' = [peer_end EXCEPT !.closed = TRUE, !.session = Some(d.self)]
        /\ UNCHANGED <<peerVars, cryptoVars, nonceVars, unitVars>>

\* the remote node closes the stream instead of giving its next answer
PeerCloses ==
    /\ peer_end.mode = "closes" /\ ~peer_end.closed
    /\ peer_end.answered = peer_end.from - 1
    /\ peer_end' = [peer_end EXCEPT !.closed = TRUE]
    /\ UNCHANGED <<inbox, peerVars, cryptoVars, nonceVars, unitVars>>

\* the reads of recv_msg return: the first frame that has arrived is taken
TakeFrame ==
    /\ read_ready(inbox, peer_end.closed)
    /\ inbox' = IF inbox # <<>> THEN Tail(inbox) ELSE inbox
    /\ UNCHANGED peer_end

ProgSendConn ==
    /\ ncalls = 0
    /\ \E rnd \in RandomNonces : HandshakeSendConnStep(rnd, TRUE)
    /\ UNCHANGED progVars

ProgRecvConn == TakeFrame /\ HandshakeRecvConnStep(read_result(inbox))

ProgSendMeta == HandshakeSendMetaStep(TRUE) /\ UNCHANGED progVars

ProgRecvMeta == TakeFrame /\ HandshakeRecvMetaStep(read_result(inbox))

ProgSendAck == HandshakeSendAckStep(TRUE) /\ UNCHANGED progVars

ProgRecvAck == TakeFrame /\ HandshakeRecvAckStep(read_result(inbox))

ProgNext ==
    \/ ProgSendConn
    \/ ProgRecvConn
    \/ ProgSendMeta
    \/ ProgRecvMeta
    \/ ProgSendAck
    \/ ProgRecvAck
    \/ PeerHello
    \/ PeerAnswer
    \/ PeerCloses

\* ProgRecvConn and PeerHello can be taken exactly when their guards hold,
\* and taking them ends the guard
RecvConnReady == pc = "recv_conn" /\ read_ready(inbox, peer_end.closed)
PeerHelloReady == PeerMayAnswer(1)

\* The fairness of ProgRecvConn and of PeerHello is stated on their guards
\* (neither guard holds for ever), which is what WF_vars says of them; their
\* next state holds the key derivation, which is costly to evaluate under
\* ENABLED.
SpecProgress ==
    /\ ProgInit /\ [][ProgNext]_vars
    /\ WF_vars(ProgSendConn)
    /\ WF_vars(ProgSendMeta) /\ WF_vars(ProgRecvMeta)
    /\ WF_vars(ProgSendAck) /\ WF_vars(ProgRecvAck)
    /\ WF_vars(PeerAnswer) /\ WF_vars(PeerCloses)
    /\ []<>~RecvConnReady /\ []<>~PeerHelloReady

(***************************************************************************)
(* Claims about the PeerCrypto session (SpecCrypto).                       *)
(***************************************************************************)
\* a < b as 24-byte big-endian counters
NonceBytesLT(a, b) ==
    \E i \in 1..NONCE_SIZE : a[i] < b[i] /\ \A j \in 1..(i - 1) : a[j] = b[j]

Distinct(log) == \A i, j \in 1..Len(log) : i # j => log[i] # log[j]

Increasing(log) == \A i \in 1..(Len(log) - 1) : NonceBytesLT(log[i], log[i + 1])

IncreasingOrWrap(log) ==
    \A i \in 1..(Len(log) - 1) :
        \/ NonceBytesLT(log[i], log[i + 1])
        \/ log[i] = Rep(NONCE_SIZE, 255) /\ log[i + 1] = Rep(NONCE_SIZE, 0)

RECURSIVE IncTimes(_, _)
IncTimes(n, k) == IF k = 0 THEN n ELSE IncTimes(Nonce_increment(n), k - 1)

C7_FetchAndIncrement ==
    /\ \A k \in 1..Len(used_enc) :
          used_enc[k] = Nonce_get_bytes(IncTimes(session0.nonce_pair.local, k - 1))
    /\ session.nonce_pair.local = IncTimes(session0.nonce_pair.local, Len(used_enc))
    /\ \A k \in 1..Len(used_dec) :
          used_dec[k] = Nonce_get_bytes(IncTimes(session0.nonce_pair.remote, k - 1))
    /\ session.nonce_pair.remote = IncTimes(session0.nonce_pair.remote, Len(used_dec))

\* a session has encrypted twice and decrypted twice
C7_Witness ==
    /\ Len(used_enc) >= 2 /\ Len(used_dec) >= 2
    /\ session0.nonce_pair.local # session0.nonce_pair.remote

(***************************************************************************)
(* Claims about the nonce derivation (SpecNonces).                         *)
(***************************************************************************)
\* the local nonce of each pair is the remote nonce of the other
CrossEqual(p, q) == p.local = q.remote /\ p.remote = q.local

\* C8 as stated: two pairs derived from the same (sent_msg, recv_msg) with
\* complementary incoming flags have local and remote exchanged.
C8_SameArguments ==
    \A s \in BOOLEAN :
        (pairs[<<TRUE, s>>].some /\ pairs[<<FALSE, s>>].some)
            => CrossEqual(pairs[<<TRUE, s>>].v, pairs[<<FALSE, s>>].v)

\* C8 amended: two pairs derived with complementary incoming flags have
\* local and remote exchanged when the two calls are given the two messages
\* in exchanged positions (one call's sent_msg is the other's recv_msg), or
\* when sent_msg followed by recv_msg is the same byte sequence as recv_msg
\* followed by sent_msg.
C8_ExchangedArguments ==
    \A s \in BOOLEAN :
        /\ (pairs[<<TRUE, s>>].some /\ pairs[<<FALSE, ~s>>].some)
              => CrossEqual(pairs[<<TRUE, s>>].v, pairs[<<FALSE, ~s>>].v)
        /\ ( /\ pairs[<<TRUE, s>>].some /\ pairs[<<FALSE, s>>].some
             /\ conn.sent \o conn.recv = conn.recv \o conn.sent )
              => CrossEqual(pairs[<<TRUE, s>>].v, pairs[<<FALSE, s>>].v)

\* both directions have been derived, with exchanged arguments, from two
\* messages that do not commute
C8_Witness ==
    /\ pairs[<<TRUE, FALSE>>].some /\ pairs[<<FALSE, TRUE>>].some
    /\ conn.sent \o conn.recv # conn.recv \o conn.sent

\* C9: the initiator's session, built from (sent = a, recv = b, incoming =
\* false), and the responder's, built from (sent = b, recv = a, incoming =
\* true), hold each other's nonces exchanged, after any number of messages;
\* a message encrypted by one end is decrypted by the other with the same
\* nonce and yields the plaintext.
C9_EndsAgree ==
    (endA.some /\ endB.some) =>
        /\ CrossEqual(endA.v.nonce_pair, endB.v.nonce_pair)
        /\ endA.v.precomputed_key = endB.v.precomputed_key
        /\ xchg.last.some =>
              /\ xchg.last.v.enc_nonce = xchg.last.v.dec_nonce
              /\ xchg.last.v.res = Ok(xchg.last.v.plain)

\* two messages have gone from A to B and one from B to A, the connection
\* messages of the two ends being different
C9_Witness ==
    /\ endA.some /\ endB.some
    /\ xchg.ab >= 2 /\ xchg.ba >= 1
    /\ conn.sent \o conn.recv # conn.recv \o conn.sent

(***************************************************************************)
(* Claims about the Peer (Spec).                                           *)
(***************************************************************************)
\* the last call was a handshake and it has returned
HandshakeReturned == last_call.op = "handshake" /\ pc = "idle"

\* the stream operations of a handshake that went through all its steps: both
\* connection messages exchanged, the metadata frame received, decrypted and
\* parsed, and the last frame received decrypted and decoded to Ack
FullRun(log) ==
    /\ Len(log) = 6
    /\ \A i \in 1..6 : log[i].ok
    /\ log[1].op = "write" /\ ConnectionMessage_read(log[1].bytes).ok
    /\ log[2].op = "read" /\ ConnectionMessage_read(log[2].bytes).ok
    /\ log[3].op = "write"
    /\ log[4].op = "read" /\ log[4].crypt /\ MetadataMessage_read(log[4].bytes).ok
    /\ log[5].op = "write"
    /\ log[6].op = "read" /\ log[6].crypt /\ AckStatus_read(log[6].bytes) = Ok("Ack")

\* C1: the state is Connected only if some handshake call returned Ok after
\* completing all of its steps.
C1_ConnectedOnlyByFullHandshake ==
    state = "Connected" => (ok_log.some /\ FullRun(ok_log.v))

\* the peer is Connected, and was so before the last call, which was not a
\* successful handshake
C1_Witness ==
    /\ state = "Connected" /\ call_start.state = "Connected"
    /\ pc = "idle" /\ ~last_call.res.ok

\* C2: the stream operations of a handshake are, in order: write connection
\* message (plain), read connection message (plain), write metadata
\* (encrypted), read metadata, write Ack (encrypted), read ack; each begins
\* only after the one before it succeeded; nothing is encrypted or decrypted
\* in the first two, and every frame written after them is sealed.
C2_HandshakeOrder ==
    last_call.op = "handshake" =>
        /\ Len(io_log) <= 6
        /\ \A i \in 1..Len(io_log) :
              /\ io_log[i].op = (IF i % 2 = 1 THEN "write" ELSE "read")
              /\ io_log[i].encryption = (i > 2)
              /\ i <= 2 => ~io_log[i].crypt /\ ~io_log[i].data.box
              /\ (i > 2 /\ io_log[i].op = "write") => io_log[i].crypt /\ io_log[i].data.box
              /\ i < Len(io_log) => io_log[i].ok
        /\ Len(io_log) >= 1 => ConnectionMessage_read(io_log[1].bytes).ok
        /\ Len(io_log) >= 3 =>
              io_log[3].bytes = MetadataMessage_write(MetadataMessage_new(FALSE, FALSE))
        /\ Len(io_log) >= 5 => io_log[5].bytes = AckStatus_write("Ack")
        /\ (pc = "recv_conn") => Len(io_log) = 1
        /\ (pc = "send_meta") => Len(io_log) = 2
        /\ (pc = "recv_meta") => Len(io_log) = 3
        /\ (pc = "send_ack") => Len(io_log) = 4
        /\ (pc = "recv_ack") => Len(io_log) = 5

\* a handshake has performed its six stream operations
C2_Witness == HandshakeReturned /\ Len(io_log) = 6 /\ last_call.res.ok

\* C3: when a handshake call has ended with an error, the state is not
\* Connected, whatever the state was when the call began.
C3_FailedHandshakeNotConnected ==
    (HandshakeReturned /\ ~last_call.res.ok) => state # "Connected"

\* C4: handshake returns Ok or Err(PeerError) whatever frames the peer sends;
\* it never panics.
C4_HandshakeNeverPanics == pc # "panicked"

\* C5: when the acknowledgement frame decrypts and decodes to NackV1 or
\* NackV2, handshake returns AckFailed, leaves the state as it was, and has
\* written and read nothing beyond its three frames each way.
C5_NackFails ==
    ( /\ HandshakeReturned
      /\ Len(io_log) >= 6
      /\ io_log[6].op = "read" /\ io_log[6].crypt /\ io_log[6].ok
      /\ AckStatus_read(io_log[6].bytes) \in { Ok("NackV1"), Ok("NackV2") } )
    => /\ last_call.res = Err("AckFailed")
       /\ state = call_start.state
       /\ state = "Connected" => (ok_log.some /\ call_start.state = "Connected")
       /\ Len(io_log) = 6

\* a handshake begun in state Connecting has received NackV2
C5_Witness ==
    /\ HandshakeReturned
    /\ Len(io_log) = 6 /\ io_log[6].crypt /\ io_log[6].ok
    /\ AckStatus_read(io_log[6].bytes) = Ok("NackV2")
    /\ call_start.state = "Connecting"

\* C10: send_msg with encryption = true on a peer without a session returns
\* PeerCryptoNotInitialized, writes nothing to the stream, and leaves the
\* state and peer_crypto as they were.
C10_SendWithoutSession ==
    ( /\ last_call.op = "send_msg" /\ last_call.encryption
      /\ ~call_start.peer_crypto.some )
    => /\ last_call.res = Err("PeerCryptoNotInitialized")
       /\ io_log = <<>>
       /\ state = call_start.state
       /\ peer_crypto = call_start.peer_crypto

\* such a call has been made, on a fresh peer
C10_Witness ==
    /\ last_call.op = "send_msg" /\ last_call.encryption
    /\ ~call_start.peer_crypto.some
    /\ call_start.state = "Connecting"

\* C11: recv_msg with encryption = true on a peer without a session returns
\* PeerCryptoNotInitialized for every frame it reads, a zero-length frame
\* included; it never returns Ok.
C11_RecvWithoutSession ==
    ( /\ last_call.op = "recv_msg" /\ last_call.encryption
      /\ ~call_start.peer_crypto.some
      /\ Len(io_log) = 1 /\ Len(io_log[1].prefix) = CONTENT_LENGTH_FIELD_BYTES )
    => last_call.res = Err("PeerCryptoNotInitialized")

\* C12 as stated: after desconnect the state is Disconnected, whatever the
\* state before and whatever the outcome of the flush and of the shutdown.
C12_AlwaysDisconnected ==
    last_call.op = "desconnect" => state = "Disconnected"

\* C12: desconnect flushes, then shuts down, in that order.  When both
\* succeed it returns Ok and the state is Disconnected whatever it was before;
\* when the flush fails the shutdown is not attempted; when either fails it
\* returns the I/O error and the state is as it was before the call.
C12_DisconnectedWhenOk ==
    last_call.op = "desconnect" =>
        /\ Len(io_log) >= 1 /\ io_log[1].op = "flush"
        /\ Len(io_log) = (IF io_log[1].ok THEN 2 ELSE 1)
        /\ Len(io_log) = 2 => io_log[2].op = "shutdown"
        /\ last_call.res.ok = (\A i \in 1..Len(io_log) : io_log[i].ok)
        /\ last_call.res.ok => (Len(io_log) = 2 /\ state = "Disconnected")
        /\ ~last_call.res.ok => (last_call.res = Err("Io") /\ state = call_start.state)

\* desconnect has returned Ok on a peer that was Connected
C12_Witness ==
    /\ last_call.op = "desconnect" /\ last_call.res.ok
    /\ call_start.state = "Connected" /\ state = "Disconnected"

\* C19: the session handshake installs is the one of an outgoing connection
\* over the frames of steps 1 and 2: with S the frame written and R the frame
\* read, length prefixes included, local is the first 24 bytes of the digest
\* of S || R || "Resp -> Init", remote the first 24 bytes of the digest of
\* S || R || "Init -> Resp", and the key is precomputed from the public key
\* of the parsed message and this node's secret key.
C19_InstalledSession ==
    (last_call.op = "handshake" /\ pc = "send_meta") =>
        LET S == FrameBytes(io_log[1])
            R == FrameBytes(io_log[2])
            cm_msg == ConnectionMessage_read(io_log[2].bytes)
        IN  /\ Len(io_log) = 2
            /\ Len(S) = CONTENT_LENGTH_FIELD_BYTES + Len(io_log[1].bytes)
            /\ Len(R) = CONTENT_LENGTH_FIELD_BYTES + Len(io_log[2].bytes)
            /\ cm_msg.ok
            /\ peer_crypto =
                  Some([precomputed_key |->
                            PrecomputedKey_precompute(cm_msg.v.public_key, IdentitySk),
                        nonce_pair |->
                            [local |-> Nonce_new(SubSeq(
                                 digest_256(S \o R \o RESP_TO_INIT_SEED).v, 1, NONCE_SIZE)),
                             remote |-> Nonce_new(SubSeq(
                                 digest_256(S \o R \o INIT_TO_RESP_SEED).v, 1, NONCE_SIZE))]])

\* a handshake begun without a session has just installed one
C19_Witness ==
    /\ last_call.op = "handshake" /\ pc = "send_meta"
    /\ ~call_start.peer_crypto.some /\ peer_crypto.some

\* C14: the conversions between 24 bytes and a nonce are inverse to each
\* other: Nonce::new(b).get_bytes() = b, and Nonce::new(n.get_bytes()) = n.
C14_NonceRoundTrip ==
    nconv.some => (nconv.v.bytes = nbytes /\ nconv.v.nonce = nconv.v.of_nonce)

\* both conversions have been made, on bytes and on a nonce whose words have
\* two different bytes
C14_Witness ==
    /\ nconv.some
    /\ nbytes[1] # nbytes[2]
    /\ nconv.v.of_nonce[NONCE_WORDS] \div 256 # nconv.v.of_nonce[NONCE_WORDS] % 256

RECURSIVE add_one_at(_, _)
add_one_at(b, i) ==
    IF i = 0 THEN b
    ELSE IF b[i] = 255 THEN add_one_at([b EXCEPT ![i] = 0], i - 1)
    ELSE [b EXCEPT ![i] = b[i] + 1]

\* the last word of value that is not 65535; 0 when all are
LastOpenWord(value) ==
    LET open == { i \in 1..NONCE_WORDS : value[i] # 65535 }
    IN  IF open = {} THEN 0 ELSE CHOOSE i \in open : \A k \in open : k <= i

\* C20: increment is 'add 1 modulo 2^192' on the 24-byte big-endian value:
\* the words after the last word that is not 0xFFFF become 0, that word
\* grows by one, the words before it are unchanged, all-0xFFFF becomes
\* all-zero; the nonce incremented is still in place afterwards.
C20_IncrementIsAddOne ==
    \A i \in 1..(Len(ntrail) - 1) :
        LET n == ntrail[i]
            r == ntrail[i + 1]
            w == LastOpenWord(n)
        IN  /\ Nonce_get_bytes(r) = add_one_at(Nonce_get_bytes(n), NONCE_SIZE)
            /\ \A k \in 1..NONCE_WORDS :
                  r[k] = (IF k < w THEN n[k] ELSE IF k = w THEN n[k] + 1 ELSE 0)

\* an increment has carried from the last word into the first
C20_Witness ==
    /\ Len(ntrail) >= 2
    /\ ntrail[1][1] = 0 /\ ntrail[2][1] = 1 /\ ntrail[1][NONCE_WORDS] = 65535

\* C16: PublicKey::from_bytes and SecretKey::from_bytes succeed exactly on
\* buffers of 32 bytes, with a key holding those bytes; for any other length
\* L they return InvalidKeySize with expected = 32 and actual = L.
C16_KeyFromBytes ==
    kres.some =>
        \A r \in { kres.v.pk, kres.v.sk } :
            /\ r.ok <=> Len(kbuf) = 32
            /\ r.ok => r.v = kbuf
            /\ ~r.ok => r.err = [kind |-> "InvalidKeySize", expected |-> 32,
                                  actual |-> Len(kbuf)]

\* from_bytes has been applied to a buffer of 33 bytes
C16_Witness == kres.some /\ Len(kbuf) = 33 /\ ~kres.v.pk.ok

C13_FramingRoundTrip ==
    \A k \in 1..Len(frecv) :
        /\ frecv[k].res = Ok(fsent[k])
        /\ frecv[k].consumed = CONTENT_LENGTH_FIELD_BYTES + Len(Bytes(fsent[k]))

\* task t is inside an operation, holding the guard of the stream
Holding(t) == tpc[t].at = "hold"

LockSafety ==
    /\ \A t, u \in Tasks : (Holding(t) /\ Holding(u)) => t = u
    /\ \A t \in Tasks : Holding(t) <=> lock = t
    /\ (\A t \in Tasks : tpc[t].at = "idle") => lock = 0

CallOnSession(op) == last_call.op = op /\ call_start.peer_crypto.some

\* the nonce pair of the session before and after the last call
PairBefore == call_start.peer_crypto.v.nonce_pair
PairAfter == peer_crypto.v.nonce_pair

\* the last call was a recv_msg that read a whole frame from the stream
ReadAFrame ==
    /\ Len(io_log) = 1 /\ io_log[1].op = "read"
    /\ Len(io_log[1].prefix) = CONTENT_LENGTH_FIELD_BYTES

\* C21: on a peer with a session, send_msg with encryption advances the
\* local nonce by one increment and leaves the remote nonce; recv_msg with
\* encryption that reads a frame advances the remote nonce by one increment
\* and leaves the local nonce, whatever the length of the frame; without
\* encryption neither nonce moves.
C21_OneNoncePerMessage ==
    /\ (CallOnSession("send_msg") /\ last_call.encryption) =>
          /\ PairAfter.local = Nonce_increment(PairBefore.local)
          /\ PairAfter.remote = PairBefore.remote
    /\ (CallOnSession("recv_msg") /\ last_call.encryption /\ ReadAFrame) =>
          /\ PairAfter.remote = Nonce_increment(PairBefore.remote)
          /\ PairAfter.local = PairBefore.local
    /\ ((CallOnSession("send_msg") \/ CallOnSession("recv_msg")) /\ ~last_call.encryption) =>
          PairAfter = PairBefore

(***************************************************************************)
(* Claims about the independence of the two directions (SpecCrypto).       *)
(***************************************************************************)
\* the step is a call of encrypt, of decrypt
IsEncrypt == Len(used_enc') = Len(used_enc) + 1
IsDecrypt == Len(used_dec') = Len(used_dec) + 1

\* after i encrypts and j decrypts in any order, the key is the one the
\* session was created with, the local nonce is the initial local nonce
\* incremented i times, and the remote nonce the initial remote nonce
\* incremented j times
CountersAfter ==
    /\ session.precomputed_key = session0.precomputed_key
    /\ session.nonce_pair.local = IncTimes(session0.nonce_pair.local, Len(used_enc))
    /\ session.nonce_pair.remote = IncTimes(session0.nonce_pair.remote, Len(used_dec))

\* encrypt leaves the remote nonce and the key; decrypt leaves the local
\* nonce and the key
FrameOfStep ==
    /\ IsEncrypt => /\ session'.nonce_pair.remote = session.nonce_pair.remote
                    /\ session'.precomputed_key = session.precomputed_key
    /\ IsDecrypt => /\ session'.nonce_pair.local = session.nonce_pair.local
                    /\ session'.precomputed_key = session.precomputed_key

\* C22: the counters of the two directions are independent: encrypt leaves
\* the remote nonce and the precomputed key unchanged, decrypt leaves the
\* local nonce and the precomputed key unchanged, and after any interleaving
\* of i encrypts and j decrypts the local nonce is the initial one
\* incremented i times and the remote nonce the initial one incremented j
\* times.
C22_IndependentCounters == []CountersAfter /\ [][FrameOfStep]_vars

\* a session whose two nonces started different has encrypted once and
\* decrypted three times
C22_Witness ==
    /\ Len(used_enc) = 1 /\ Len(used_dec) = MaxOps
    /\ session0.nonce_pair.local # session0.nonce_pair.remote
    /\ session.nonce_pair.local # session0.nonce_pair.local

(***************************************************************************)
(* Claims about a decryption that fails (Spec).                            *)
(***************************************************************************)
\* C26: a recv_msg that fails with CryptoFailed was made on a peer with a
\* session, read a frame and handed it to decrypt; after it the remote
\* nonce is one increment ahead of its value before the call (the failure
\* does not put it back), and the local nonce and the key are as before.
C26_FailedDecryptConsumesNonce ==
    (last_call.op = "recv_msg" /\ last_call.res = Err("CryptoFailed")) =>
        /\ call_start.peer_crypto.some /\ peer_crypto.some
        /\ ReadAFrame /\ io_log[1].crypt /\ ~io_log[1].ok
        /\ PairAfter.remote = Nonce_increment(PairBefore.remote)
        /\ PairAfter.remote # PairBefore.remote
        /\ PairAfter.local = PairBefore.local
        /\ peer_crypto.v.precomputed_key = call_start.peer_crypto.v.precomputed_key

\* recv_msg has failed with CryptoFailed on a frame sealed under the key of
\* the session with a nonce that was not the expected one
C26_Witness ==
    /\ last_call.op = "recv_msg" /\ last_call.res = Err("CryptoFailed")
    /\ io_log[1].data.box
    /\ io_log[1].data.key = call_start.peer_crypto.v.precomputed_key
    /\ io_log[1].data.nonce # Nonce_get_bytes(PairBefore.remote)

(***************************************************************************)
(* Claims about the course of one handshake call (Spec).                   *)
(***************************************************************************)
\* the stream operations of the first two steps succeeded and the connection
\* message read in the second parses
ConnectionMessagesExchanged ==
    /\ Len(io_log) >= 2
    /\ io_log[1].op = "write" /\ io_log[1].ok
    /\ io_log[2].op = "read" /\ io_log[2].ok
    /\ ConnectionMessage_read(io_log[2].bytes).ok

\* C23: the peer connect returns is Connecting and has no session; during a
\* handshake peer_crypto is assigned only once the connection message of
\* step 1 has been written and that of step 2 read and parsed; a handshake
\* that fails in step 1 or 2 leaves peer_crypto as it was; and a Connected
\* peer has a session.
C23_SessionOnlyAfterKeyExchange ==
    /\ ncalls = 0 => (peer_crypto = None /\ state = "Connecting")
    /\ last_call.op = "handshake" =>
          /\ (pc = "recv_conn" \/ Len(io_log) < 2) => peer_crypto = call_start.peer_crypto
          /\ peer_crypto # call_start.peer_crypto => ConnectionMessagesExchanged
          /\ (HandshakeReturned /\ ~last_call.res.ok /\ Len(io_log) <= 2)
                => peer_crypto = call_start.peer_crypto
    /\ state = "Connected" => peer_crypto.some

\* a handshake on a Connected peer has failed to parse the connection
\* message it read
C23_Witness ==
    /\ HandshakeReturned /\ last_call.res = Err("SpeedyFailed")
    /\ Len(io_log) = 2 /\ io_log[2].ok
    /\ call_start.peer_crypto.some /\ state = "Connected"

\* the number of stream operations of the kind op in log
CountOps(log, op) == Cardinality({ i \in 1..Len(log) : log[i].op = op })

\* the stream operations of a handshake so far: the i-th is that of step i,
\* and none follows one that failed
StepsOnce ==
    last_call.op = "handshake" =>
        /\ Len(io_log) <= 6
        /\ CountOps(io_log, "write") <= 3 /\ CountOps(io_log, "read") <= 3
        /\ \A i \in 1..Len(io_log) :
              /\ io_log[i].op = (IF i % 2 = 1 THEN "write" ELSE "read")
              /\ i < Len(io_log) => io_log[i].ok
        /\ ~last_call.res.ok => pc \in { "idle", "panicked" }

\* a step that is not the beginning of a call is a step of the handshake in
\* progress: it performs one stream operation more, and when that operation
\* or what follows it in the step fails, the call ends there
OneMoreOperation ==
    (ncalls' = ncalls /\ io_log' # io_log) =>
        /\ pc \notin { "idle", "panicked" } /\ last_call.op = "handshake"
        /\ last_call.res.ok
        /\ Len(io_log') = Len(io_log) + 1
        /\ SubSeq(io_log', 1, Len(io_log)) = io_log
        /\ \A i \in 1..Len(io_log) : io_log[i].ok
        /\ (~io_log'[Len(io_log')].ok \/ ~last_call'.res.ok) => pc' \in { "idle", "panicked" }

\* C24: one handshake call attempts each of its six stream steps at most
\* once, in order (at most three frames written and three read), and after
\* the first step that fails it performs no further stream operation: the
\* call has ended.
C24_NoRetryStopAtFirstFailure == []StepsOnce /\ [][OneMoreOperation]_vars

\* a handshake has ended on the failure of its third write
C24_Witness ==
    /\ HandshakeReturned /\ last_call.res = Err("Io")
    /\ Len(io_log) = 5 /\ io_log[5].op = "write" /\ ~io_log[5].ok

(***************************************************************************)
(* Claims about the progress of the handshake (SpecProgress).              *)
(***************************************************************************)
\* the handshake has returned Ok and the peer is Connected
HandshakeDone ==
    /\ HandshakeReturned /\ last_call.res = Ok(<<>>)
    /\ state = "Connected"

\* where the handshake stands while it waits for the k-th answer
AwaitedAt(k) ==
    CASE k = 1 -> "recv_conn"
      [] k = 2 -> "recv_meta"
      [] k = 3 -> "recv_ack"

\* the handshake is in the read of the k-th answer, nothing has arrived and
\* the stream is open
Stalled(k) ==
    /\ last_call.op = "handshake" /\ pc = AwaitedAt(k)
    /\ inbox = <<>> /\ ~peer_end.closed
    /\ state = "Connecting"

\* C25: over a stream that delivers every write, with a remote node that
\* answers each step in order with a well-formed connection message, then
\* metadata and Ack sealed under the agreed key and nonces, the handshake
\* eventually returns Ok and the peer is Connected; with a remote node that
\* does not send the k-th answer and leaves the stream open, the handshake
\* reaches the read of that answer and stays in it for ever: there is no
\* deadline, and the call never returns.
C25_HandshakeProgress ==
    /\ (peer_end.mode = "answers" /\ pc = "recv_conn") ~> HandshakeDone
    /\ \A k \in 1..3 :
          (peer_end.mode = "silent" /\ peer_end.from = k /\ pc = "recv_conn") ~> []Stalled(k)
    /\ []((peer_end.mode = "silent" /\ last_call.op = "handshake") => pc # "idle")

\* the handshake is Connected after the remote node gave its three answers,
\* its session having moved as far as this end's
C25_Witness ==
    /\ HandshakeDone
    /\ peer_end.mode = "answers" /\ peer_end.answered = 3 /\ inbox = <<>>
    /\ peer_end.session.v.nonce_pair.local = peer_crypto.v.nonce_pair.remote
    /\ peer_end.session.v.nonce_pair.remote = peer_crypto.v.nonce_pair.local

====
